---- MODULE Spec2Model ----
(***************************************************************************)
(* Model of the AI movie analysis agent: the query sanitizer, the          *)
(* time-bucketed LRU search cache, the registered tools and the entry      *)
(* point analyze_movie.                                                    *)
(*                                                                         *)
(* A text is a sequence of fragments.  Queries are sequences of one-char   *)
(* fragments, so that stripping, character removal and truncation are      *)
(* computed character by character; messages are sequences of the literal  *)
(* pieces the code concatenates.                                           *)
(***************************************************************************)
EXTENDS Integers, Sequences, FiniteSets, TLC

VARIABLES
    raw,               \* the raw query handed to sanitize_query
    search_instance,   \* _search_instance: "None" or the client object
    cache,             \* lru_cache of _cached_search, least recently used first
    now,               \* time.time(), in seconds
    settings,          \* the global Settings instance (search part)
    fetched,           \* history: for each cache key of the current time bucket
                       \* that search.run was invoked for, its first outcome
    recency,           \* history: the cached keys in the order of their last use
    last_call,         \* observation of the last completed top-level call
    agent,             \* the analyze_movie call in progress: position in the
                       \* graph, messages, supersteps and invocation counts
    produced_in,       \* history: for each cached key, the time bucket the
                       \* clock was in when its stored outcome was produced
    class_attrs,       \* the attributes of the class Settings
    instances,         \* the Settings instances constructed so far
    threads            \* the perform_search calls of concurrent callers

vars == <<raw, search_instance, cache, now, settings, fetched, recency, last_call,
          agent, produced_in, class_attrs, instances, threads>>

\* the variables of the configuration and of the concurrent callers
background == <<class_attrs, instances, threads>>

----------------------------------------------------------------------------
(* Bounds of the model *)

\* lru_cache(maxsize=100) scaled down: the number of entries the cache holds
maxsize == 2
\* the clock stops after this many TTL windows
MaxBucket == 1
\* the clock only visits this many seconds at the start of a TTL window
MaxOffset == 4
\* longest prefix / suffix put around the filler of a raw query
MaxAffix == 2
\* the supersteps one graph.invoke may take (the library's recursion limit,
\* scaled down)
recursion_limit == 3
\* the callers that invoke perform_search concurrently
NumThreads == 2
\* the Settings instances constructed besides the global one
MaxInstances == 2

(* Program constants *)
max_length == 200
DefaultCacheTtl == 3600
DefaultRateLimitDelay == 1
DefaultMaxIterations == 10
DefaultMaxResults == 10
\* ModelConfig.temperature = 0.1, in tenths
DefaultTemperature == 1

----------------------------------------------------------------------------
(* Python values *)

None == [tp |-> "NoneType"]
Str(s) == [tp |-> "str", s |-> s]
Int_(n) == [tp |-> "int", n |-> n]

\* Python truthiness of a value that is None, an int or a str
Truthy(v) ==
    CASE v.tp = "NoneType" -> FALSE
      [] v.tp = "int" -> v.n # 0
      [] v.tp = "str" -> v.s # <<>>

Whitespace == {" ", "\t", "\n"}

RECURSIVE lstrip(_)
lstrip(s) ==
    IF s # <<>> /\ Head(s) \in Whitespace THEN lstrip(Tail(s)) ELSE s

RECURSIVE rstrip(_)
rstrip(s) ==
    IF s # <<>> /\ s[Len(s)] \in Whitespace
    THEN rstrip(SubSeq(s, 1, Len(s) - 1))
    ELSE s

\* str.strip()
strip(s) == rstrip(lstrip(s))

\* the character class of re.sub(r'[<>"\';]', '', ...)
Disallowed == {"<", ">", "\"", "'", ";"}

IsDisallowed(c) == c \in Disallowed

\* re.sub(r'[<>"\';]', '', s)
re_sub(s) == SelectSeq(s, LAMBDA c : ~IsDisallowed(c))

\* sanitize_query without the length limit
sanitize_query_unlimited(query) ==
    IF ~Truthy(query) \/ query.tp # "str"
    THEN <<>>
    ELSE re_sub(strip(query.s))

\* sanitize_query(query): the sanitized text (a sequence of characters)
sanitize_query(query) ==
    IF ~Truthy(query) \/ query.tp # "str"
    THEN <<>>
    ELSE LET sanitized == re_sub(strip(query.s))
         IN  IF Len(sanitized) > max_length
             THEN SubSeq(sanitized, 1, max_length)
             ELSE sanitized

----------------------------------------------------------------------------
(* SearchResult *)

SearchResult(query, results, success, error) ==
    [query |-> query, results |-> results, success |-> success, error |-> error]

\* SearchResult.__str__
SearchResult_str(r) ==
    IF r.success THEN r.results ELSE <<"Search failed: ">> \o r.error.s

\* a text contains the literal piece
Contains(text, piece) == \E i \in 1..Len(text) : text[i] = piece

----------------------------------------------------------------------------
(* The search collaborator *)

\* what search.run(query) does when it is invoked
RunEffects ==
    { [kind |-> "return", text |-> <<"result 1">>],
      [kind |-> "raise", exc |-> "ConnectionError", msg |-> <<"Network error">>],
      [kind |-> "raise", exc |-> "Exception", msg |-> <<"boom">>] }

\* what DuckDuckGoSearchRun() does when it is invoked; once the client exists
\* the constructor is not invoked again
CtorEffects == IF search_instance = "None" THEN {"ok", "raise"} ELSE {"unused"}

Returned(v) == [kind |-> "return", value |-> v]
Raised(exc) == [kind |-> "raise", exc |-> exc]

\* get_search_instance(): the outcome and the new _search_instance
get_search_instance(ctor) ==
    IF search_instance = "None"
    THEN IF ctor = "raise"
         THEN [outcome |-> Raised("ImportError"), instance |-> "None"]
         ELSE [outcome |-> Returned("DuckDuckGoSearchRun"),
               instance |-> "DuckDuckGoSearchRun"]
    ELSE [outcome |-> Returned(search_instance), instance |-> search_instance]

NetworkError ==
    Str(<<"Network connection error", ". Please check your internet connection.">>)

TimeoutFailure ==
    Str(<<"Search request timed out", ". Please try again later.">>)

Unexpected(msg) == Str(<<"An unexpected error occurred: ">> \o msg)

\* run_result with the result text lost: the query is returned in its place
run_result_echo(query, run) ==
    CASE run.kind = "return" -> SearchResult(query, query, TRUE, None)
      [] run.kind = "raise" /\ run.exc = "ConnectionError" ->
           SearchResult(query, <<>>, FALSE, NetworkError)
      [] run.kind = "raise" /\ run.exc = "TimeoutError" ->
           SearchResult(query, <<>>, FALSE, TimeoutFailure)
      [] OTHER -> SearchResult(query, <<>>, FALSE, Unexpected(run.msg))

\* run_result without the handler of ConnectionError
run_result_unhandled(query, run) ==
    CASE run.kind = "return" -> SearchResult(query, run.text, TRUE, None)
      [] run.kind = "raise" /\ run.exc = "TimeoutError" ->
           SearchResult(query, <<>>, FALSE, TimeoutFailure)
      [] OTHER -> SearchResult(query, <<>>, FALSE, Unexpected(run.msg))

\* the SearchResult _cached_search builds from what search.run(query) does
run_result(query, run) ==
    CASE run.kind = "return" -> SearchResult(query, run.text, TRUE, None)
      [] run.kind = "raise" /\ run.exc = "ConnectionError" ->
           SearchResult(query, <<>>, FALSE, NetworkError)
      [] run.kind = "raise" /\ run.exc = "TimeoutError" ->
           SearchResult(query, <<>>, FALSE, TimeoutFailure)
      [] OTHER -> SearchResult(query, <<>>, FALSE, Unexpected(run.msg))

\* search_body without the pause
search_body_no_pause(query, run, ctor) ==
    LET got == get_search_instance(ctor)
    IN  IF got.outcome.kind = "raise"
        THEN [outcome |-> got.outcome, instance |-> got.instance,
              now |-> now, sleeps |-> 0, runs |-> 0]
        ELSE [outcome |-> Returned(run_result(query, run)),
              instance |-> got.instance,
              now |-> now, sleeps |-> 0, runs |-> 1]

\* the body of _cached_search, run on a cache miss; time.sleep raises
\* ValueError for a negative length, inside the try block
search_body(query, run, ctor) ==
    LET got == get_search_instance(ctor)
        delay == settings.search.rate_limit_delay
    IN  IF got.outcome.kind = "raise"
        THEN [outcome |-> got.outcome, instance |-> got.instance,
              now |-> now, sleeps |-> 0, runs |-> 0]
        ELSE IF delay < 0
        THEN [outcome |-> Returned(SearchResult(query, <<>>, FALSE,
                  Unexpected(<<"sleep length must be non-negative">>))),
              instance |-> got.instance,
              now |-> now, sleeps |-> 0, runs |-> 0]
        ELSE [outcome |-> Returned(run_result(query, run)),
              instance |-> got.instance,
              now |-> now + delay, sleeps |-> 1, runs |-> 1]

----------------------------------------------------------------------------
(* functools.lru_cache *)

CacheKeys(c) == { c[i].key : i \in 1..Len(c) }

CacheIndex(c, key) == CHOOSE i \in 1..Len(c) : c[i].key = key

RemoveAt(c, i) == SubSeq(c, 1, i - 1) \o SubSeq(c, i + 1, Len(c))

\* the lookup of a cache without memory
cache_hit_never(c, key) == FALSE

\* the lookup of lru_cache: the key is among the stored keys
cache_hit(c, key) == key \in CacheKeys(c)

\* lru_touch of a first-in first-out cache: a hit leaves the order alone
lru_touch_fifo(c, key) == c

\* a hit moves the entry to the most recently used end
lru_touch(c, key) ==
    LET i == CacheIndex(c, key) IN RemoveAt(c, i) \o <<c[i]>>

\* lru_insert of a cache that stores successes only
lru_insert_successes(c, key, value) ==
    LET entry == [key |-> key, value |-> value]
    IN  IF ~value.success THEN c
        ELSE IF Len(c) >= maxsize THEN Tail(c) \o <<entry>> ELSE c \o <<entry>>

\* an insert into a full cache drops the least recently used entry
lru_insert(c, key, value) ==
    LET entry == [key |-> key, value |-> value]
    IN  IF Len(c) >= maxsize THEN Tail(c) \o <<entry>> ELSE c \o <<entry>>

\* _cached_search(query, cache_key) behind @lru_cache(maxsize=100)
cached_search(query, cache_key, run, ctor) ==
    LET key == <<query, cache_key>>
    IN  IF cache_hit(cache, key)
        THEN [outcome |-> Returned(cache[CacheIndex(cache, key)].value),
              instance |-> search_instance, now |-> now,
              cache |-> lru_touch(cache, key),
              sleeps |-> 0, runs |-> 0, lookups |-> 1, hits |-> 1, inserts |-> 0,
              evicted |-> <<>>]
        ELSE LET b == search_body(query, run, ctor)
                 stored == b.outcome.kind = "return"
                 full == Len(cache) >= maxsize
             IN  [outcome |-> b.outcome, instance |-> b.instance, now |-> b.now,
                  cache |-> IF stored
                            THEN lru_insert(cache, key, b.outcome.value)
                            ELSE cache,
                  sleeps |-> b.sleeps, runs |-> b.runs,
                  lookups |-> 1, hits |-> 0,
                  inserts |-> IF stored THEN 1 ELSE 0,
                  evicted |-> IF stored /\ full /\ cache # <<>>
                              THEN <<Head(cache).key>> ELSE <<>>]

----------------------------------------------------------------------------
(* perform_search *)

\* bucket_id of a key that does not depend on the clock
bucket_id_frozen(t, cache_ttl) == 0

\* int(time.time() // settings.search.cache_ttl), for a positive cache_ttl
bucket_id(t, cache_ttl) == t \div cache_ttl

NoEffect(outcome) ==
    [outcome |-> outcome, instance |-> search_instance, now |-> now,
     cache |-> cache, sleeps |-> 0, runs |-> 0, lookups |-> 0, hits |-> 0,
     inserts |-> 0, evicted |-> <<>>]

\* perform_search without the check of the sanitized query
perform_search_unchecked(query, run, ctor) ==
    LET cache_ttl == settings.search.cache_ttl
    IN  IF cache_ttl = 0
        THEN NoEffect(Raised("ZeroDivisionError"))
        ELSE cached_search(sanitize_query(query), bucket_id(now, cache_ttl),
                           run, ctor)

\* perform_search whose cache key does not follow the clock
perform_search_one_bucket(query, run, ctor) ==
    LET sanitized_query == sanitize_query(query)
        cache_ttl == settings.search.cache_ttl
    IN  IF sanitized_query = <<>>
        THEN NoEffect(Returned(SearchResult(query, <<>>, FALSE,
                         Str(<<"Invalid or empty search query">>))))
        ELSE IF cache_ttl = 0
        THEN NoEffect(Raised("ZeroDivisionError"))
        ELSE cached_search(sanitized_query, 0, run, ctor)

\* perform_search(query): its outcome and its effect on the state
perform_search(query, run, ctor) ==
    LET sanitized_query == sanitize_query(query)
        cache_ttl == settings.search.cache_ttl
    IN  IF sanitized_query = <<>>
        THEN NoEffect(Returned(SearchResult(query, <<>>, FALSE,
                         Str(<<"Invalid or empty search query">>))))
        ELSE IF cache_ttl = 0
        THEN NoEffect(Raised("ZeroDivisionError"))
        ELSE cached_search(sanitized_query, bucket_id(now, cache_ttl), run, ctor)

----------------------------------------------------------------------------
(* ast.literal_eval on a text of digits, operators, parentheses and dots *)

Digits == {"0", "1", "2", "3", "4", "5", "6", "7", "8", "9"}

NumChars == Digits \cup {"."}

\* the length of the longest prefix of s made of characters of set S
RECURSIVE RunLength(_, _)
RunLength(s, S) ==
    IF s # <<>> /\ Head(s) \in S THEN 1 + RunLength(Tail(s), S) ELSE 0

Drop(s, n) == SubSeq(s, n + 1, Len(s))

\* the tokens of a text: numbers (runs of digits and dots), the ellipsis,
\* operators, parentheses
RECURSIVE Tokens(_)
Tokens(s) ==
    IF s = <<>> THEN <<>>
    ELSE IF Head(s) \in Whitespace THEN Tokens(Tail(s))
    ELSE IF Head(s) \in NumChars
    THEN LET n == RunLength(s, NumChars)
             text == SubSeq(s, 1, n)
         IN  <<[kind |-> IF text = <<".", ".", ".">> THEN "ellipsis" ELSE "num",
                text |-> text]>> \o Tokens(Drop(s, n))
    ELSE IF Head(s) \in {"*", "/"} /\ Len(s) >= 2 /\ s[2] = Head(s)
    THEN <<[kind |-> "op", text |-> <<Head(s), Head(s)>>]>> \o Tokens(Drop(s, 2))
    ELSE IF Head(s) \in {"(", ")"}
    THEN <<[kind |-> Head(s), text |-> <<Head(s)>>]>> \o Tokens(Tail(s))
    ELSE <<[kind |-> "op", text |-> <<Head(s)>>]>> \o Tokens(Tail(s))

CountOf(s, c) == Len(SelectSeq(s, LAMBDA x : x = c))

AllZeros(s) == \A i \in 1..Len(s) : s[i] = "0"

\* a number token is a Python literal: digits with at most one dot, and an
\* integer has no leading zero unless it is zero
IsNumberLiteral(text) ==
    /\ \E i \in 1..Len(text) : text[i] \in Digits
    /\ CountOf(text, ".") <= 1
    /\ CountOf(text, ".") = 0 => (text[1] # "0" \/ AllZeros(text))

IsSign(tok) == tok.kind = "op" /\ tok.text \in {<<"+">>, <<"-">>}

\* recursive descent over the tokens ts from position i: the position after the
\* longest expression / unary factor / postfix atom starting at i, 0 if none
RECURSIVE ParseExpr(_, _), ParseFactor(_, _), ParseTrailers(_, _), ParseRest(_, _)
ParseAtom(ts, i) ==
    IF i > Len(ts) THEN 0
    ELSE IF ts[i].kind = "num"
    THEN IF IsNumberLiteral(ts[i].text) THEN i + 1 ELSE 0
    ELSE IF ts[i].kind = "ellipsis" THEN i + 1
    ELSE IF ts[i].kind = "("
    THEN IF i + 1 <= Len(ts) /\ ts[i + 1].kind = ")" THEN i + 2
         ELSE LET j == ParseExpr(ts, i + 1)
              IN  IF j # 0 /\ j <= Len(ts) /\ ts[j].kind = ")" THEN j + 1 ELSE 0
    ELSE 0

ParseTrailers(ts, i) ==
    IF i <= Len(ts) /\ ts[i].kind = "("
    THEN LET j == ParseAtom(ts, i)
         IN  IF j = 0 THEN 0 ELSE ParseTrailers(ts, j)
    ELSE i

ParseFactor(ts, i) ==
    IF i > Len(ts) THEN 0
    ELSE IF IsSign(ts[i]) THEN ParseFactor(ts, i + 1)
    ELSE LET j == ParseAtom(ts, i)
         IN  IF j = 0 THEN 0 ELSE ParseTrailers(ts, j)

ParseRest(ts, i) ==
    IF i <= Len(ts) /\ ts[i].kind = "op"
    THEN LET j == ParseFactor(ts, i + 1)
         IN  IF j = 0 THEN 0 ELSE ParseRest(ts, j)
    ELSE i

ParseExpr(ts, i) ==
    LET j == ParseFactor(ts, i)
    IN  IF j = 0 THEN 0 ELSE ParseRest(ts, j)

\* ast.parse(s, mode='eval') accepts the text
Parses(ts) == ts # <<>> /\ ParseExpr(ts, 1) = Len(ts) + 1

\* the tokens without the parentheses that enclose all of them
RECURSIVE Unwrap(_)
Unwrap(ts) ==
    IF /\ Len(ts) >= 3 /\ ts[1].kind = "(" /\ ts[Len(ts)].kind = ")"
       /\ Parses(SubSeq(ts, 2, Len(ts) - 1))
    THEN Unwrap(SubSeq(ts, 2, Len(ts) - 1))
    ELSE ts

StripLeading(s, c) == Drop(s, IF RunLength(s, {c}) = Len(s) THEN Len(s) - 1
                              ELSE RunLength(s, {c}))

Reverse(s) == [i \in 1..Len(s) |-> s[Len(s) + 1 - i]]

\* str() of the int or float a number literal denotes, with its sign; short
\* decimals only (no exponent notation)
NumberText(sign, text) ==
    IF CountOf(text, ".") = 0
    THEN LET digits == StripLeading(text, "0")
         IN  (IF sign = "-" /\ digits # <<"0">> THEN <<"-">> ELSE <<>>) \o digits
    ELSE LET dot == CHOOSE i \in 1..Len(text) : text[i] = "."
             int_part == SubSeq(text, 1, dot - 1)
             frac_part == SubSeq(text, dot + 1, Len(text))
             ip == IF int_part = <<>> THEN <<"0">> ELSE StripLeading(int_part, "0")
             fp == IF frac_part = <<>> THEN <<"0">>
                   ELSE Reverse(StripLeading(Reverse(frac_part), "0"))
         IN  (IF sign = "-" THEN <<"-">> ELSE <<>>) \o ip \o <<".">> \o fp

\* ast.literal_eval(s) followed by str(): the text of a literal, or the error
literal_eval(s) ==
    LET ts == Tokens(s)
    IN  IF ~Parses(ts)
        THEN [kind |-> "raise", exc |-> "SyntaxError", msg |-> <<"invalid syntax">>]
        ELSE LET u == Unwrap(ts)
                 signed == Len(u) >= 2 /\ IsSign(u[1])
                 v == IF signed THEN Unwrap(Drop(u, 1)) ELSE u
             IN  IF Len(v) = 1 /\ v[1].kind = "num"
                 THEN [kind |-> "return",
                       text |-> NumberText(IF signed THEN u[1].text[1] ELSE "+",
                                           v[1].text)]
                 ELSE IF ~signed /\ Len(u) = 2 /\ u[1].kind = "(" /\ u[2].kind = ")"
                 THEN [kind |-> "return", text |-> <<"(", ")">>]
                 ELSE IF ~signed /\ Len(u) = 1 /\ u[1].kind = "ellipsis"
                 THEN [kind |-> "return", text |-> <<"Ellipsis">>]
                 ELSE [kind |-> "raise", exc |-> "ValueError",
                       msg |-> <<"malformed node or string">>]

----------------------------------------------------------------------------
(* The registered tools *)

\* search_movie_info(query): str(perform_search(query))
search_movie_info(query, run, ctor) ==
    LET e == perform_search(query, run, ctor)
    IN  IF e.outcome.kind = "return"
        THEN [e EXCEPT !.outcome = Returned(SearchResult_str(e.outcome.value))]
        ELSE e

\* the character class of re.sub(r'[^0-9+\-*/().\s]', '', ...)
CalcChars == Digits \cup {"+", "-", "*", "/", "(", ")", "."} \cup Whitespace

\* calculator(expression)
calculator(expression) ==
    IF ~Truthy(expression) \/ expression.tp # "str"
    THEN Returned(<<"Error: Invalid expression">>)
    ELSE LET sanitized == SelectSeq(strip(expression.s), LAMBDA c : c \in CalcChars)
         IN  IF sanitized = <<>>
             THEN Returned(<<"Error: Empty expression after sanitization">>)
             ELSE LET result == literal_eval(sanitized)
                  IN  IF result.kind = "return" THEN Returned(result.text)
                      ELSE Returned(<<"Error: ", "Invalid mathematical expression: ">>
                                    \o result.msg)

----------------------------------------------------------------------------
(* Inputs *)

SeqsUpTo(S, n) == UNION { [1..k -> S] : k \in 0..n }

Filler(n) == [i \in 1..n |-> "x"]

PrefixChars == {"a", " ", "<"}

SuffixChars == {"a", " ", "'"}

FillLengths == {0, max_length - 1, max_length, max_length + 1}

\* raw queries for sanitize_query: None, numbers, and texts around max_length
SanitizeInputs ==
    {None, Int_(0), Int_(5)}
    \cup { Str(pre \o Filler(n) \o post) :
             pre \in SeqsUpTo(PrefixChars, MaxAffix),
             post \in SeqsUpTo(SuffixChars, MaxAffix),
             n \in FillLengths }

\* raw queries for perform_search
SearchQueries ==
    {None, Int_(5), Str(<<>>), Str(<<"<", ";">>),
     Str(<<"a">>), Str(<<"b">>), Str(<<"c">>)}

SearchConfig(cache_ttl, rate_limit_delay) ==
    [cache_ttl |-> cache_ttl, rate_limit_delay |-> rate_limit_delay]

\* Settings(): the class attributes of Settings
DefaultSettings ==
    [search |-> SearchConfig(DefaultCacheTtl, DefaultRateLimitDelay)]

\* ModelConfig(); the temperature is counted in tenths
ModelConfig == [temperature |-> DefaultTemperature]

\* AgentConfig()
AgentConfig == [max_iterations |-> DefaultMaxIterations]

\* the class Settings after `class Settings:` has run: the environment, and one
\* ModelConfig, SearchConfig and AgentConfig object held by the class
SettingsClass(tracing, api_key, search) ==
    [langchain_tracing |-> tracing, langchain_api_key |-> api_key,
     model |-> ModelConfig,
     search |-> [max_results |-> DefaultMaxResults,
                 cache_ttl |-> search.cache_ttl,
                 rate_limit_delay |-> search.rate_limit_delay],
     agent |-> AgentConfig]

\* Settings(): the class defines no __init__ and the code assigns no
\* attribute of an instance, so a new instance has no attribute of its own;
\* assigned records that a field was assigned through this instance
NewInstance == [assigned |-> FALSE]

\* no concurrent call is in progress
NoThreads == [t \in 1..NumThreads |-> [pc |-> "idle"]]

\* configurations a deployment may assign to the settings
SettingsChoices ==
    { [search |-> SearchConfig(2, DefaultRateLimitDelay)],
      [search |-> SearchConfig(2, -1)],
      [search |-> SearchConfig(0, DefaultRateLimitDelay)] }

\* the clock values the model visits
ClockOK(t) ==
    IF settings.search.cache_ttl = 0
    THEN t <= MaxOffset
    ELSE /\ t \div settings.search.cache_ttl <= MaxBucket
         /\ t % settings.search.cache_ttl <= MaxOffset

Idle == [op |-> "none"]

\* no analyze_movie call is in progress
NotRunning == [pc |-> "idle"]

\* the keys of a set that belong to the time bucket of clock value t; a key of
\* an earlier bucket is never asked for again, the clock being monotonic
CurrentKeys(f, t) ==
    IF settings.search.cache_ttl = 0 THEN f
    ELSE LET keep == { k \in DOMAIN f :
                         k[2] = bucket_id(t, settings.search.cache_ttl) }
         IN  [k \in keep |-> f[k]]

----------------------------------------------------------------------------
(* The search cache as a state machine *)

\* an optional value: <<>> or <<v>>
Some(v) == <<v>>
Nothing == <<>>

\* the buckets of the entries the cache holds for a sanitized query
HeldBuckets(c, q) == { k[2] : k \in { kk \in CacheKeys(c) : kk[1] = q } }

\* recency after a use of key: the keys in the order of their last use
Use(order, key) == SelectSeq(order, LAMBDA k : k # key) \o <<key>>

\* the state after the modules are loaded, but for the settings
Loaded ==
    /\ raw = None
    /\ search_instance = "None"
    /\ cache = <<>>
    /\ now = 0
    /\ fetched = <<>>
    /\ recency = <<>>
    /\ last_call = Idle
    /\ agent = NotRunning
    /\ produced_in = <<>>
    /\ threads = NoThreads

\* the class Settings and the global instance for a search configuration
Configured(search) ==
    /\ settings = [search |-> search]
    /\ class_attrs = SettingsClass(FALSE, None, search)
    /\ instances = <<NewInstance>>

InitSearch == Loaded /\ Configured(DefaultSettings.search)

InitConfigured == Loaded /\ \E s \in SettingsChoices : Configured(s.search)

\* the seconds left until the next TTL window starts
NextWindow ==
    IF settings.search.cache_ttl = 0 THEN {}
    ELSE {settings.search.cache_ttl - (now % settings.search.cache_ttl)}

\* the clock advances between calls, to the start of the next TTL window (or
\* by a second when there are no windows)
Tick ==
    /\ \E d \in IF NextWindow = {} THEN {1} ELSE NextWindow :
          /\ ClockOK(now + d)
          /\ now' = now + d
    /\ fetched' = CurrentKeys(fetched, now')
    /\ last_call' = Idle
    /\ UNCHANGED <<background, raw, search_instance, cache, settings, recency,
                   produced_in, agent>>

\* the observation of a perform_search(query) call with effect e
SearchObservation(op, query, run, ctor, e, sanitized_query) ==
    LET looked == e.lookups > 0
        key == IF looked
               THEN <<sanitized_query, bucket_id(now, settings.search.cache_ttl)>>
               ELSE <<>>
        hit == looked /\ key \in CacheKeys(cache)
    IN  [op |-> op, query |-> query, sanitized |-> sanitized_query,
         run |-> run, ctor |-> ctor, at |-> now, key |-> key,
         held |-> IF looked THEN HeldBuckets(cache, sanitized_query) ELSE {},
         stored |-> IF hit THEN Some(cache[CacheIndex(cache, key)].value)
                    ELSE Nothing,
         first |-> IF looked /\ key \in DOMAIN fetched THEN Some(fetched[key])
                   ELSE Nothing,
         lru |-> IF recency = <<>> THEN Nothing ELSE Some(Head(recency)),
         size_before |-> Len(cache),
         outcome |-> e.outcome, sleeps |-> e.sleeps, runs |-> e.runs,
         lookups |-> e.lookups, hits |-> e.hits, inserts |-> e.inserts,
         evicted |-> e.evicted]

\* the history variables after a perform_search call with effect e
SearchHistory(e, sanitized_query) ==
    LET key == <<sanitized_query, bucket_id(now, settings.search.cache_ttl)>>
        seen == IF e.runs > 0 /\ key \notin DOMAIN fetched
                THEN fetched @@ (key :> e.outcome.value)
                ELSE fetched
        used == IF e.hits > 0 \/ e.inserts > 0 THEN Use(recency, key) ELSE recency
        made == IF e.inserts > 0 THEN [k \in DOMAIN produced_in \cup {key} |->
                                         IF k = key
                                         THEN bucket_id(e.now,
                                                  settings.search.cache_ttl)
                                         ELSE produced_in[k]]
                ELSE produced_in
    IN  /\ fetched' = CurrentKeys(seen, e.now)
        /\ recency' = SelectSeq(used, LAMBDA k : k \in CacheKeys(e.cache))
        /\ produced_in' = [k \in DOMAIN made \cap CacheKeys(e.cache) |-> made[k]]

\* a caller invokes perform_search(query)
PerformSearch ==
    \E query \in SearchQueries, run \in RunEffects, ctor \in CtorEffects :
      \E e \in {perform_search(query, run, ctor)},
         sanitized_query \in {sanitize_query(query)} :
        /\ ClockOK(e.now)
        /\ search_instance' = e.instance
        /\ cache' = e.cache
        /\ now' = e.now
        /\ IF e.lookups > 0
           THEN SearchHistory(e, sanitized_query)
           ELSE UNCHANGED <<fetched, recency, produced_in>>
        /\ last_call' = SearchObservation("perform_search", query, run, ctor, e,
                                          sanitized_query)
        /\ UNCHANGED <<background, raw, settings, agent>>

NextSearch == Tick \/ PerformSearch

SpecSearch == InitSearch /\ [][NextSearch]_vars

----------------------------------------------------------------------------
(* The registered tools, invoked one call at a time *)

\* arguments a caller hands to search_movie_info
ToolQueries == {None, Str(<<>>), Str(<<"<", ";">>), Str(<<"a">>), Str(<<"b">>)}

\* arguments a caller hands to calculator
CalcInputs ==
    {None, Int_(5), Str(<<>>), Str(<<" ">>), Str(<<"a", "b", "c">>),
     Str(<<"4", "2">>), Str(<<" ", "-", "3", ".", "5", "0">>),
     Str(<<"2", " ", "+", " ", "2">>), Str(<<"1", "0", " ", "/", " ", "0">>),
     Str(<<"(", "7", ")">>), Str(<<"(", "5">>), Str(<<".", ".", ".">>),
     Str(<<"o", "s", ".", "s", "y", "s", "t", "e", "m", "(", "'", "x", "'", ")">>)}

\* a caller invokes the tool search_movie_info(query)
SearchMovieInfo ==
    \E query \in ToolQueries, run \in RunEffects, ctor \in CtorEffects :
      \E e \in {search_movie_info(query, run, ctor)},
         sanitized_query \in {sanitize_query(query)} :
        /\ ClockOK(e.now)
        /\ search_instance' = e.instance
        /\ cache' = e.cache
        /\ now' = e.now
        /\ IF e.lookups > 0
           THEN SearchHistory(e, sanitized_query)
           ELSE UNCHANGED <<fetched, recency, produced_in>>
        /\ last_call' = SearchObservation("search_movie_info", query, run, ctor, e,
                                          sanitized_query)
        /\ UNCHANGED <<background, raw, settings, agent>>

\* a caller invokes the tool calculator(expression)
Calculator ==
    \E expression \in CalcInputs :
        /\ last_call' = [op |-> "calculator", expression |-> expression,
                         outcome |-> calculator(expression)]
        /\ UNCHANGED <<background, raw, search_instance, cache, now, settings,
                       fetched,
                       recency, produced_in, agent>>

NextTools == Tick \/ SearchMovieInfo \/ Calculator

\* the tools under the configurations a deployment may assign
SpecTools == InitConfigured /\ [][NextTools]_vars

----------------------------------------------------------------------------
(* perform_search called by concurrent callers *)

\* lru_cache takes no lock while the wrapped function runs: the lookup, the
\* body of _cached_search (client, pause, search.run) and the insert of one
\* call are steps between which the other callers run

ThreadQueries == {Str(<<>>), Str(<<"a">>), Str(<<"b">>)}

\* the observation of a completed call of thread t
ThreadObservation(t, key, outcome) ==
    [op |-> "concurrent_search", thread |-> t, key |-> key, outcome |-> outcome]

\* thread t calls perform_search(query): sanitize, cache key, lookup; on a
\* miss the body starts with get_search_instance()
ThreadCall ==
    \E t \in 1..NumThreads, query \in ThreadQueries, ctor \in CtorEffects :
      LET sanitized_query == sanitize_query(query)
          key == <<sanitized_query, bucket_id(now, settings.search.cache_ttl)>>
          got == get_search_instance(ctor)
      IN  /\ threads[t].pc = "idle"
          /\ IF sanitized_query = <<>>
             THEN /\ last_call' = ThreadObservation(t, <<>>,
                         perform_search(query, CHOOSE r \in RunEffects : TRUE,
                                        ctor).outcome)
                  /\ UNCHANGED <<search_instance, cache, recency, threads>>
             ELSE IF cache_hit(cache, key)
             THEN /\ last_call' = ThreadObservation(t, key,
                         Returned(cache[CacheIndex(cache, key)].value))
                  /\ cache' = lru_touch(cache, key)
                  /\ recency' = Use(recency, key)
                  /\ UNCHANGED <<search_instance, threads>>
             ELSE /\ search_instance' = got.instance
                  /\ IF got.outcome.kind = "raise"
                     THEN /\ last_call' = ThreadObservation(t, key, got.outcome)
                          /\ UNCHANGED threads
                     ELSE /\ last_call' = Idle
                          /\ threads' = [threads EXCEPT ![t] =
                                 [pc |-> "paused", query |-> sanitized_query,
                                  key |-> key,
                                  wake |-> now + settings.search.rate_limit_delay]]
                  /\ UNCHANGED <<cache, recency>>
          /\ UNCHANGED <<raw, now, settings, fetched, agent, produced_in,
                         class_attrs, instances>>

\* the pause of thread t is over: search.run(query), and the SearchResult
ThreadRun ==
    \E t \in 1..NumThreads, run \in RunEffects :
        /\ threads[t].pc = "paused"
        /\ now >= threads[t].wake
        /\ threads' = [threads EXCEPT ![t] =
               [pc |-> "storing", query |-> threads[t].query,
                key |-> threads[t].key,
                value |-> run_result(threads[t].query, run), produced |-> now]]
        /\ fetched' = IF threads[t].key \in DOMAIN fetched THEN fetched
                      ELSE fetched @@ (threads[t].key :>
                                         run_result(threads[t].query, run))
        /\ last_call' = Idle
        /\ UNCHANGED <<raw, search_instance, cache, now, settings, recency, agent,
                       produced_in, class_attrs, instances>>

\* _cached_search has returned in thread t: lru_cache stores the result unless
\* the key was stored meanwhile, and the call returns it
ThreadStore ==
    \E t \in 1..NumThreads :
      LET key == threads[t].key
          present == key \in CacheKeys(cache)
          stored == IF present THEN cache
                    ELSE lru_insert(cache, key, threads[t].value)
          made == [k \in DOMAIN produced_in \cup {key} |->
                     IF k = key /\ ~present
                     THEN bucket_id(threads[t].produced, settings.search.cache_ttl)
                     ELSE produced_in[k]]
      IN  /\ threads[t].pc = "storing"
          /\ cache' = stored
          /\ recency' = SelectSeq(IF present THEN recency ELSE Use(recency, key),
                                  LAMBDA k : k \in CacheKeys(stored))
          /\ produced_in' = [k \in DOMAIN made \cap CacheKeys(stored) |-> made[k]]
          /\ threads' = [threads EXCEPT ![t] = [pc |-> "idle"]]
          /\ last_call' = ThreadObservation(t, key, Returned(threads[t].value))
          /\ UNCHANGED <<raw, search_instance, now, settings, fetched, agent,
                         class_attrs, instances>>

\* a second passes
Clock ==
    /\ ClockOK(now + 1)
    /\ now' = now + 1
    /\ fetched' = CurrentKeys(fetched, now')
    /\ last_call' = Idle
    /\ UNCHANGED <<raw, search_instance, cache, settings, recency, agent,
                   produced_in, class_attrs, instances, threads>>

NextConcurrent == ThreadCall \/ ThreadRun \/ ThreadStore \/ Clock

SpecConcurrent == InitSearch /\ [][NextConcurrent]_vars

\* the threads that found a miss, have invoked the collaborator and have not
\* stored their result yet
Fetching == { t \in 1..NumThreads : threads[t].pc = "storing" }

\* C18 as stated: two concurrent perform_search calls for the same (sanitized
\* query, bucket id) never both find a miss and both invoke the collaborator.
C18_NoDuplicateFetch ==
    \A t1 \in Fetching, t2 \in Fetching :
        threads[t1].key = threads[t2].key => t1 = t2

----------------------------------------------------------------------------
(* Settings: the class, its instances and validate *)

\* what the environment holds for LANGCHAIN_API_KEY
ApiKeys == {None, Str(<<>>), Str(<<"key">>)}

\* the fields a caller assigns, as in settings.model.temperature = 2.0
Fields ==
    {<<"model", "temperature">>, <<"search", "max_results">>,
     <<"agent", "max_iterations">>}

\* the values assigned to a field; temperatures in tenths
FieldValues(field) ==
    CASE field = <<"model", "temperature">> -> {-1, DefaultTemperature, 20}
      [] field = <<"search", "max_results">> -> {0, DefaultMaxResults}
      [] field = <<"agent", "max_iterations">> -> {5, DefaultMaxIterations}

\* self.<name> of instance i: an instance has no attribute of its own, so the
\* lookup gives the attribute of the class
Attr(i, name) == class_attrs[name]

\* the component configurations instance i sees
Config(i) ==
    [model |-> Attr(i, "model"), search |-> Attr(i, "search"),
     agent |-> Attr(i, "agent")]

\* Settings.validate(self) of instance i
validate(i) ==
    IF Attr(i, "langchain_tracing") /\ ~Truthy(Attr(i, "langchain_api_key"))
    THEN Raised("ValueError")
    ELSE IF Attr(i, "model").temperature < 0 \/ Attr(i, "model").temperature > 10
    THEN Raised("ValueError")
    ELSE IF Attr(i, "search").max_results <= 0
    THEN Raised("ValueError")
    ELSE Returned(None)

InitSettings ==
    /\ Loaded
    /\ settings = DefaultSettings
    /\ \E tracing \in BOOLEAN, api_key \in ApiKeys :
         class_attrs = SettingsClass(tracing, api_key, DefaultSettings.search)
    /\ instances = <<NewInstance>>

\* a caller constructs Settings()
NewSettings ==
    /\ Len(instances) < 1 + MaxInstances
    /\ instances' = Append(instances, NewInstance)
    /\ last_call' = [op |-> "Settings", instance |-> Len(instances) + 1,
                     config |-> Config(Len(instances) + 1)]
    /\ UNCHANGED <<raw, search_instance, cache, now, settings, fetched, recency,
                   agent, produced_in, class_attrs, threads>>

\* a caller assigns a field of a component configuration of instance i: the
\* object assigned to is the one the class holds
AssignField ==
    \E i \in 1..Len(instances), field \in Fields :
      \E value \in FieldValues(field) :
        /\ class_attrs' = [class_attrs EXCEPT ![field[1]][field[2]] = value]
        /\ instances' = [instances EXCEPT ![i].assigned = TRUE]
        /\ last_call' = [op |-> "assign", instance |-> i, field |-> field,
                         value |-> value,
                         before |-> [j \in 1..Len(instances) |-> Config(j)]]
        /\ UNCHANGED <<raw, search_instance, cache, now, settings, fetched,
                       recency, agent, produced_in, threads>>

\* a caller invokes validate() of instance i
Validate ==
    \E i \in 1..Len(instances) :
        /\ last_call' = [op |-> "validate", instance |-> i,
                         outcome |-> validate(i),
                         assigned |-> instances[i].assigned,
                         config |-> Config(i)]
        /\ UNCHANGED <<raw, search_instance, cache, now, settings, fetched,
                       recency, agent, produced_in, class_attrs, instances,
                       threads>>

NextSettings == NewSettings \/ AssignField \/ Validate

SpecSettings == InitSettings /\ [][NextSettings]_vars

(* Properties of Settings *)

ValidateCall == last_call.op = "validate"

\* the conditions validate() checks
InvalidSettings(config) ==
    \/ class_attrs.langchain_tracing /\ ~Truthy(class_attrs.langchain_api_key)
    \/ config.model.temperature < 0
    \/ config.model.temperature > 10
    \/ config.search.max_results <= 0

\* C15 as stated: validate() raises ValueError exactly when tracing is enabled
\* without an API key, the temperature is outside 0..1 or max_results is not
\* positive; on a Settings() no field of which was assigned it does not raise
\* (tracing without key apart), whenever the instance was constructed.
C15_ValidateDefaults ==
    ValidateCall =>
      /\ (last_call.outcome = Raised("ValueError"))
            <=> InvalidSettings(last_call.config)
      /\ last_call.outcome.kind = "raise"
            => last_call.outcome = Raised("ValueError")
      /\ (/\ ~last_call.assigned
          /\ ~(class_attrs.langchain_tracing
                 /\ ~Truthy(class_attrs.langchain_api_key)))
            => last_call.outcome.kind = "return"

\* the component configurations of Settings()
DefaultConfig ==
    [model |-> ModelConfig,
     search |-> SettingsClass(FALSE, None, DefaultSettings.search).search,
     agent |-> AgentConfig]

\* C19 as stated: assigning a field of a component configuration of one
\* Settings instance leaves the configuration of every other instance, the
\* global one included, as it was, and a Settings() constructed later has the
\* default configuration.
C19_InstancesIsolated ==
    /\ last_call.op = "assign"
         => \A j \in 1..Len(instances) :
              j # last_call.instance => Config(j) = last_call.before[j]
    /\ last_call.op = "Settings" => last_call.config = DefaultConfig

----------------------------------------------------------------------------
(* MovieAnalysisAgent: analyze_movie and the model / tools graph *)

Message(type, content, tool_calls) ==
    [type |-> type, content |-> content, tool_calls |-> tool_calls]

ToolCallRequest(name, args) == [name |-> name, args |-> args]

\* what self.model.invoke(messages) does when it is invoked
ModelEffects ==
    { [kind |-> "return",
       message |-> Message("ai", <<"analysis">>, <<>>)],
      [kind |-> "return",
       message |-> Message("ai", <<>>,
           <<ToolCallRequest("search_movie_info", Str(<<"a">>))>>)],
      [kind |-> "return",
       message |-> Message("ai", <<>>,
           <<ToolCallRequest("search_movie_info", Str(<<"b">>))>>)],
      [kind |-> "return",
       message |-> Message("ai", <<>>,
           <<ToolCallRequest("calculator", Str(<<"2", " ", "+", " ", "2">>))>>)],
      [kind |-> "raise", exc |-> "Exception"] }

\* arguments a caller hands to analyze_movie
MovieNames ==
    {None, Int_(5), Str(<<>>), Str(<<" ">>), Str(<<"\t", " ">>),
     Str(<<" ", "m">>)}

GuidanceText == <<"Please provide a ", "valid movie name", ".">>

ModelErrorText ==
    <<"I encountered an error while processing your request. Please try again.">>

AnalysisErrorText(movie_name) ==
    <<"I encountered an error while analyzing '">> \o movie_name
      \o <<"'. Please try again or try a different movie.">>

\* name_check that lets every text through
name_check_absent(movie_name) ==
    IF movie_name.tp = "str" THEN "accept"
    ELSE IF ~Truthy(movie_name) THEN "reject" ELSE "raise"

\* the check of analyze_movie on its argument: `not movie_name or not
\* movie_name.strip()`; a truthy value that is no text has no strip()
name_check(movie_name) ==
    IF ~Truthy(movie_name) THEN "reject"
    ELSE IF movie_name.tp # "str" THEN "raise"
    ELSE IF strip(movie_name.s) = <<>> THEN "reject"
    ELSE "accept"

\* the observation of a completed analyze_movie call
AnalysisObservation(movie_name, outcome, run) ==
    [op |-> "analyze_movie", movie_name |-> movie_name, outcome |-> outcome,
     steps |-> run.steps, model_calls |-> run.model_calls,
     tool_calls |-> run.tool_calls, lookups |-> run.lookups, runs |-> run.runs,
     cache_before |-> run.cache_before, messages |-> run.messages]

\* analyze_movie(movie_name) up to graph.invoke(input_state)
AnalyzeMovie ==
    \E movie_name \in MovieNames :
      LET start == [pc |-> "model", movie_name |-> movie_name,
                    messages |-> <<>>, steps |-> 0, model_calls |-> 0,
                    tool_calls |-> 0, lookups |-> 0, runs |-> 0,
                    cache_before |-> cache]
          check == name_check(movie_name)
      IN  /\ agent.pc = "idle"
          /\ IF check = "accept"
             THEN /\ agent' = [start EXCEPT !.messages =
                                 <<Message("system", <<"system prompt">>, <<>>),
                                   Message("human", <<"Please analyze the movie '">>
                                       \o strip(movie_name.s)
                                       \o <<"'. Find the lead characters and then find the latest movies for each lead actor.">>,
                                       <<>>)>>]
                  /\ last_call' = Idle
             ELSE /\ agent' = NotRunning
                  /\ last_call' = AnalysisObservation(movie_name,
                         IF check = "reject" THEN Returned(GuidanceText)
                         ELSE Raised("AttributeError"), start)
          /\ UNCHANGED <<background, raw, search_instance, cache, now,
                         settings, fetched,
                         recency, produced_in>>

\* graph.invoke returns or raises: analyze_movie returns the content of the
\* last message, or the fallback text of its except branch
Finish(run, raised) ==
    /\ agent' = NotRunning
    /\ last_call' = AnalysisObservation(run.movie_name,
           Returned(IF raised THEN AnalysisErrorText(strip(run.movie_name.s))
                    ELSE run.messages[Len(run.messages)].content),
           run)

\* _tools_condition(state)
tools_condition(messages) ==
    IF messages[Len(messages)].tool_calls # <<>> THEN "tools" ELSE "END"

\* _model_node(state), then the conditional edge
ModelNode ==
    /\ agent.pc = "model"
    /\ agent.steps < recursion_limit
    /\ \E model \in ModelEffects :
         LET response == IF model.kind = "return" THEN model.message
                         ELSE Message("human", ModelErrorText, <<>>)
             run == [agent EXCEPT !.messages = Append(@, response),
                                  !.steps = @ + 1, !.model_calls = @ + 1]
         IN  IF tools_condition(run.messages) = "tools"
             THEN /\ agent' = [run EXCEPT !.pc = "tools"]
                  /\ last_call' = Idle
             ELSE Finish(run, FALSE)
    /\ UNCHANGED <<background, raw, search_instance, cache, now, settings,
                   fetched, recency, produced_in>>

\* ToolNode(self.tools) on the tool call of the last message, then the edge to
\* the model; an exception of the tool either becomes the content of the tool
\* message or leaves graph.invoke, as the library is configured
ToolsNode ==
    /\ agent.pc = "tools"
    /\ agent.steps < recursion_limit
    /\ LET call == agent.messages[Len(agent.messages)].tool_calls[1]
       IN  IF call.name = "calculator"
           THEN /\ agent' = [agent EXCEPT
                      !.messages = Append(@, Message("tool",
                                             calculator(call.args).value, <<>>)),
                      !.steps = @ + 1, !.tool_calls = @ + 1, !.pc = "model"]
                /\ last_call' = Idle
                /\ UNCHANGED <<search_instance, cache, now, fetched, recency,
                               produced_in>>
           ELSE \E run \in RunEffects, ctor \in CtorEffects, handled \in BOOLEAN :
                  \E e \in {search_movie_info(call.args, run, ctor)},
                     sanitized_query \in {sanitize_query(call.args)} :
                    LET content == IF e.outcome.kind = "return" THEN e.outcome.value
                                   ELSE <<"Error: ", e.outcome.exc>>
                        after == [agent EXCEPT
                                   !.messages = Append(@, Message("tool", content, <<>>)),
                                   !.steps = @ + 1, !.tool_calls = @ + 1,
                                   !.lookups = @ + e.lookups,
                                   !.runs = @ + e.runs, !.pc = "model"]
                    IN  /\ ClockOK(e.now)
                        /\ e.outcome.kind = "return" => handled
                        /\ search_instance' = e.instance
                        /\ cache' = e.cache
                        /\ now' = e.now
                        /\ IF e.lookups > 0
                           THEN SearchHistory(e, sanitized_query)
                           ELSE UNCHANGED <<fetched, recency, produced_in>>
                        /\ IF handled
                           THEN agent' = after /\ last_call' = Idle
                           ELSE Finish([after EXCEPT !.messages = agent.messages],
                                       TRUE)
    /\ UNCHANGED <<background, raw, settings>>

\* the graph runs out of supersteps: graph.invoke raises GraphRecursionError
RecursionLimit ==
    /\ agent.pc \in {"model", "tools"}
    /\ agent.steps >= recursion_limit
    /\ Finish(agent, TRUE)
    /\ UNCHANGED <<background, raw, search_instance, cache, now, settings,
                   fetched, recency, produced_in>>

NextAgent == Tick \/ AnalyzeMovie \/ ModelNode \/ ToolsNode \/ RecursionLimit

SpecAgent == InitSearch /\ [][NextAgent]_vars

----------------------------------------------------------------------------
(* Properties of analyze_movie *)

AnalyzeCall == last_call.op = "analyze_movie"

\* the text is empty or made of whitespace only
Blank(v) == v.tp = "str" /\ \A i \in 1..Len(v.s) : v.s[i] \in Whitespace

\* C1: analyze_movie with an empty or whitespace-only movie_name returns the
\* guidance text containing "valid movie name", having invoked neither the
\* model nor the search collaborator and with the search cache as it was; the
\* graph never runs for such a name.
C1_BlankNameShortCircuit ==
    /\ (AnalyzeCall /\ Blank(last_call.movie_name))
          => /\ last_call.outcome = Returned(GuidanceText)
             /\ Contains(last_call.outcome.value, "valid movie name")
             /\ last_call.model_calls = 0
             /\ last_call.tool_calls = 0
             /\ last_call.lookups = 0
             /\ last_call.runs = 0
             /\ last_call.steps = 0
             /\ cache = last_call.cache_before
    /\ agent.pc # "idle" => ~Blank(agent.movie_name)

\* a whitespace-only name is answered while the cache holds earlier results
C1_Witness ==
    /\ AnalyzeCall
    /\ Blank(last_call.movie_name) /\ last_call.movie_name.s # <<>>
    /\ last_call.outcome = Returned(GuidanceText)
    /\ cache # <<>>
    /\ search_instance # "None"

\* the messages of a run that the model node appended: all but the two
\* messages analyze_movie starts with and the tool messages
ModelResponses(messages) ==
    SelectSeq(SubSeq(messages, 3, Len(messages)), LAMBDA m : m.type # "tool")

ToolMessages(messages) == SelectSeq(messages, LAMBDA m : m.type = "tool")

\* the model requested a tool on every response of the run, and every tool
\* invocation gave a tool message
AlwaysRequestsTool ==
    /\ AnalyzeCall
    /\ last_call.model_calls > 0
    /\ \A i \in 1..Len(ModelResponses(last_call.messages)) :
          /\ ModelResponses(last_call.messages)[i].type = "ai"
          /\ ModelResponses(last_call.messages)[i].tool_calls # <<>>
    /\ Len(ToolMessages(last_call.messages)) = last_call.tool_calls

\* C12 as stated: with a model that requests a tool on every response the loop
\* of analyze_movie ends after exactly max_iterations (default 10) model-tool
\* round trips, with the last assistant message as the result.
C12_IterationBound ==
    AlwaysRequestsTool
      => /\ last_call.tool_calls = DefaultMaxIterations
         /\ LET responses == ModelResponses(last_call.messages)
            IN  last_call.outcome = Returned(responses[Len(responses)].content)

\* the last message of a completed run
LastMessage == last_call.messages[Len(last_call.messages)]

\* C13 as stated: a first response without tool call ends the loop after one
\* model step and no tool invocation, analyze_movie returning its text; the
\* loop is in Tool exactly after a response with tool calls, in Model after
\* every tool step, and ends only from Model on a response without tool call.
C13_LoopTransitions ==
    /\ (AnalyzeCall /\ last_call.model_calls > 0
           /\ ModelResponses(last_call.messages)[1].tool_calls = <<>>)
         => /\ last_call.model_calls = 1
            /\ last_call.tool_calls = 0
            /\ last_call.outcome =
                 Returned(ModelResponses(last_call.messages)[1].content)
    /\ agent.pc = "tools"
         => agent.messages[Len(agent.messages)].tool_calls # <<>>
    /\ (agent.pc = "model" /\ agent.steps > 0)
         => agent.messages[Len(agent.messages)].type = "tool"
    /\ (AnalyzeCall /\ last_call.model_calls > 0)
         => /\ LastMessage.type # "tool"
            /\ LastMessage.tool_calls = <<>>
            /\ last_call.outcome = Returned(LastMessage.content)

\* the model raised in the last step of the run
ModelFailed ==
    /\ AnalyzeCall
    /\ last_call.model_calls > 0
    /\ LastMessage.content = ModelErrorText

\* C14 as stated: an error of the model invocation becomes one synthetic
\* assistant message explaining the failure, the loop ends as on a response
\* without tool call, and analyze_movie of a text returns a text whatever the
\* model and the tools do.
C14_ModelErrorIsAssistantMessage ==
    /\ ModelFailed
         => /\ LastMessage.type = "ai"
            /\ LastMessage.tool_calls = <<>>
            /\ last_call.outcome = Returned(ModelErrorText)
    /\ (AnalyzeCall /\ last_call.movie_name.tp = "str")
         => last_call.outcome.kind = "return"

----------------------------------------------------------------------------
(* Properties of the registered tools *)

ToolCall == last_call.op \in {"search_movie_info", "calculator"}

\* C10 as stated: an invocation of a registered tool never raises; whatever the
\* argument, the collaborators and the configuration do, it returns a text.
C10_ToolsNeverRaise == ToolCall => last_call.outcome.kind = "return"

CalculatorCall == last_call.op = "calculator"

\* the text starts with "Error: "
IsErrorText(o) ==
    /\ o.kind = "return"
    /\ o.value # <<>>
    /\ o.value[1] \in {"Error: ", "Error: Invalid expression",
                       "Error: Empty expression after sanitization"}

\* C11 as stated: calculator returns the text of the value of an arithmetic
\* expression ("2 + 2" gives "4"), an error text mentioning division by zero
\* for "10 / 0", and an error text for "os.system('x')".
C11_CalculatorEvaluates ==
    CalculatorCall =>
      /\ last_call.expression = Str(<<"2", " ", "+", " ", "2">>)
            => last_call.outcome = Returned(<<"4">>)
      /\ last_call.expression = Str(<<"1", "0", " ", "/", " ", "0">>)
            => /\ IsErrorText(last_call.outcome)
               /\ Contains(last_call.outcome.value, "Division by zero")
      /\ last_call.expression =
            Str(<<"o", "s", ".", "s", "y", "s", "t", "e", "m", "(", "'", "x", "'", ")">>)
            => IsErrorText(last_call.outcome)

\* C17: every invocation of the search collaborator is directly preceded by
\* exactly one pause of rate_limit_delay seconds, and a perform_search that is
\* served from the cache or rejected as invalid does not pause.
C17_PauseBeforeEveryRun ==
    last_call.op = "perform_search" =>
      /\ last_call.runs <= 1
      /\ last_call.sleeps = last_call.runs
      /\ now = last_call.at + last_call.sleeps * settings.search.rate_limit_delay
      /\ last_call.runs = 1 => now = last_call.at + DefaultRateLimitDelay
      /\ (last_call.hits > 0 \/ last_call.lookups = 0)
           => last_call.sleeps = 0 /\ last_call.runs = 0

\* the collaborator is invoked again for a key fetched before in this bucket,
\* and the call pauses again
C17_Witness ==
    /\ last_call.op = "perform_search"
    /\ last_call.first # Nothing
    /\ last_call.runs = 1
    /\ last_call.sleeps = 1
    /\ now = last_call.at + DefaultRateLimitDelay

\* the search tool returned an outcome stored in the cache
ServedFromCache == last_call.op = "search_movie_info" /\ last_call.hits > 0

\* C20: an outcome returned from the cache was produced in the time bucket of
\* the call that returns it, which is the bucket of its key, and so less than
\* cache_ttl seconds before that call; with a pause that can be made it was
\* produced by a collaborator call for that key in this bucket.
C20_StalenessBound ==
    ServedFromCache =>
      LET cache_ttl == settings.search.cache_ttl
          key == last_call.key
      IN  /\ key \in DOMAIN produced_in
          /\ produced_in[key] = key[2]
          /\ produced_in[key] = bucket_id(last_call.at, cache_ttl)
          /\ last_call.at - produced_in[key] * cache_ttl >= 0
          /\ last_call.at - produced_in[key] * cache_ttl < cache_ttl
          /\ settings.search.rate_limit_delay >= 0 => last_call.first # Nothing

\* an outcome of the second bucket is served while the cache still holds the
\* outcome of the first bucket for the same query
C20_Witness ==
    /\ ServedFromCache
    /\ last_call.key[2] = 1
    /\ 0 \in last_call.held
    /\ last_call.first # Nothing

----------------------------------------------------------------------------
(* Properties of perform_search *)

SearchCall == last_call.op = "perform_search"

\* the configuration and the client let the collaborator be reached
Usable ==
    /\ settings.search.cache_ttl # 0
    /\ settings.search.rate_limit_delay >= 0
    /\ last_call.ctor # "raise"

ValidQuery == last_call.sanitized # <<>>

IsSuccess(o, text) ==
    /\ o.kind = "return"
    /\ o.value.success
    /\ o.value.results = text
    /\ o.value.error = None

IsNetworkFailure(o) ==
    /\ o.kind = "return"
    /\ ~o.value.success
    /\ o.value.error # None
    /\ Contains(o.value.error.s, "Network connection error")

C4_EveryLaterCall ==
    (SearchCall /\ last_call.first # Nothing /\ ~last_call.first[1].success)
        => /\ last_call.outcome = Returned(last_call.first[1])
           /\ last_call.runs = 0

\* C4 amended: a failed collaborator call is stored like a success, and every
\* later call for that key made while the failure is still stored returns it
\* without pausing and without invoking the collaborator, even when the
\* collaborator would now succeed.
C4_FailureCached ==
    /\ (SearchCall /\ last_call.runs = 1 /\ ~last_call.outcome.value.success)
          => \E i \in 1..Len(cache) :
                /\ cache[i].key = last_call.key
                /\ cache[i].value = last_call.outcome.value
    /\ (SearchCall /\ last_call.stored # Nothing /\ ~last_call.stored[1].success)
          => /\ last_call.outcome = Returned(last_call.stored[1])
             /\ last_call.runs = 0
             /\ last_call.sleeps = 0

\* a stored failure is returned although the collaborator would now succeed
C4_Witness ==
    /\ SearchCall /\ last_call.run.kind = "return"
    /\ last_call.first # Nothing /\ ~last_call.first[1].success
    /\ last_call.stored = last_call.first
    /\ last_call.outcome = Returned(last_call.first[1])

\* C5 as stated: the collaborator is invoked at most once for each pair
\* (sanitized query, bucket id).
C5_AtMostOncePerKey ==
    SearchCall => ~(last_call.runs > 0 /\ last_call.first # Nothing)

\* C5 amended: a call whose key is stored returns the stored outcome without
\* invoking the collaborator, so the collaborator is invoked again for a pair
\* only after its entry was evicted.
C5_HitNeverFetches ==
    (SearchCall /\ last_call.lookups = 1 /\ last_call.key[2] \in last_call.held)
        => /\ last_call.hits = 1
           /\ last_call.runs = 0
           /\ last_call.sleeps = 0
           /\ last_call.stored # Nothing
           /\ last_call.outcome = Returned(last_call.stored[1])

\* a hit for one query with an entry of the other query used more recently
C5_Witness ==
    /\ SearchCall /\ last_call.hits = 1 /\ last_call.runs = 0
    /\ Len(cache) >= 2
    /\ last_call.size_before = Len(cache)
    /\ cache[Len(cache)].key = last_call.key

\* C6: the bucket id is floor(clock / cache_ttl), and a call for a query whose
\* stored entries all belong to earlier buckets bypasses them and invokes the
\* collaborator again.
C6_TtlRollover ==
    (SearchCall /\ last_call.lookups = 1)
        => /\ last_call.key[2] * settings.search.cache_ttl <= last_call.at
           /\ last_call.at < (last_call.key[2] + 1) * settings.search.cache_ttl
           /\ (/\ last_call.held # {}
               /\ last_call.key[2] \notin last_call.held
               /\ settings.search.rate_limit_delay >= 0)
                 => /\ last_call.hits = 0
                    /\ last_call.runs = 1

\* under the default TTL, an entry of the previous hour is bypassed
C6_Witness ==
    /\ SearchCall /\ last_call.lookups = 1
    /\ settings.search.cache_ttl = DefaultCacheTtl
    /\ last_call.at >= DefaultCacheTtl
    /\ last_call.held = {last_call.key[2] - 1}
    /\ last_call.runs = 1

\* C7: the cache never holds more than maxsize entries, and an insert into a
\* full cache evicts exactly one entry, the one whose last use (hit or insert)
\* is the oldest.
C7_BoundedLru ==
    /\ Len(cache) <= maxsize
    /\ Cardinality(CacheKeys(cache)) = Len(cache)
    /\ (SearchCall /\ last_call.inserts = 1 /\ last_call.size_before = maxsize)
          => /\ Len(cache) = maxsize
             /\ last_call.evicted = last_call.lru
             /\ last_call.lru[1] \notin CacheKeys(cache)
             /\ last_call.key \in CacheKeys(cache)

\* a key is fetched again after its own entry was evicted, evicting another
C7_Witness ==
    /\ SearchCall /\ last_call.inserts = 1 /\ last_call.size_before = maxsize
    /\ last_call.evicted # Nothing
    /\ last_call.first # Nothing
    /\ Len(cache) = maxsize

InvalidResult(query) ==
    SearchResult(query, <<>>, FALSE, Str(<<"Invalid or empty search query">>))

\* C9: sanitize_query is empty for None, empty and non-text input, and a call
\* whose sanitized query is empty returns the invalid-query failure with no
\* cache lookup, no insert, no pause and no collaborator call.
C9_InvalidQueryShortCircuit ==
    SearchCall =>
        /\ (~Truthy(last_call.query) \/ last_call.query.tp # "str")
              => last_call.sanitized = <<>>
        /\ last_call.sanitized = <<>>
              => /\ last_call.outcome = Returned(InvalidResult(last_call.query))
                 /\ last_call.lookups = 0
                 /\ last_call.inserts = 0
                 /\ last_call.sleeps = 0
                 /\ last_call.runs = 0
                 /\ Len(cache) = last_call.size_before

\* a query made only of disallowed characters is rejected with a filled cache
C9_Witness ==
    /\ SearchCall /\ last_call.sanitized = <<>>
    /\ last_call.query.tp = "str" /\ last_call.query.s # <<>>
    /\ cache # <<>>
    /\ last_call.outcome = Returned(InvalidResult(last_call.query))

----------------------------------------------------------------------------
(* sanitize_query as a state machine: one raw query, sanitized once *)

InitSanitize ==
    /\ raw \in SanitizeInputs
    /\ search_instance = "None"
    /\ cache = <<>>
    /\ now = 0
    /\ Configured(DefaultSettings.search)
    /\ fetched = <<>>
    /\ recency = <<>>
    /\ last_call = Idle
    /\ agent = NotRunning
    /\ produced_in = <<>>
    /\ threads = NoThreads

Sanitize ==
    /\ last_call = Idle
    /\ last_call' = [op |-> "sanitize_query", query |-> raw,
                     result |-> sanitize_query(raw)]
    /\ UNCHANGED <<background, raw, search_instance, cache, now, settings,
                   fetched, recency, produced_in,
                   agent>>

NextSanitize == Sanitize

SpecSanitize == InitSanitize /\ [][NextSanitize]_vars

\* the least index from..Len(b) where b holds character c, Len(b) + 1 if none
Find(b, c, from) ==
    IF from <= Len(b) /\ b[from] = c THEN from
    ELSE LET found == { j \in from..Len(b) : b[j] = c }
         IN  IF found = {} THEN Len(b) + 1
             ELSE CHOOSE j \in found : \A k \in found : j <= k

RECURSIVE MatchEnd(_, _, _, _, _)
\* {e}: where in b the leftmost match of a[lo..hi], begun at index from, ends
MatchEnd(a, b, lo, hi, from) ==
    IF lo > hi THEN {from}
    ELSE IF lo = hi THEN {Find(b, a[lo], from) + 1}
    ELSE LET mid == (lo + hi) \div 2
         IN  UNION { MatchEnd(a, b, mid + 1, hi, e) :
                     e \in MatchEnd(a, b, lo, mid, from) }

\* a is b with characters left out
IsReduction(a, b) == \A e \in MatchEnd(a, b, 1, Len(a), 1) : e <= Len(b) + 1

SanitizeCall == last_call.op = "sanitize_query"

\* C8: for every raw query, sanitize_query returns a text of at most max_length
\* characters, none of them disallowed, that is the raw query with characters
\* left out.
C8_SanitizedIsBoundedReduction ==
    SanitizeCall =>
        /\ Len(last_call.result) <= max_length
        /\ \A i \in 1..Len(last_call.result) :
              last_call.result[i] \notin {"<", ">", "\"", "'", ";"}
        /\ IF last_call.query.tp = "str"
           THEN IsReduction(last_call.result, last_call.query.s)
           ELSE last_call.result = <<>>

\* a query longer than the limit, with disallowed characters, cut to the limit
C8_Witness ==
    /\ SanitizeCall
    /\ last_call.query.tp = "str"
    /\ Len(last_call.query.s) > max_length
    /\ \E i \in 1..Len(last_call.query.s) : last_call.query.s[i] \in {"<", "'"}
    /\ Len(last_call.result) = max_length

\* C16 as stated: the result of sanitize_query has no leading and no trailing
\* whitespace, and a raw query made only of disallowed characters and
\* whitespace sanitizes to the empty text and is rejected by perform_search.
C16_SanitizedIsTrimmed ==
    SanitizeCall =>
      /\ last_call.result # <<>>
           => /\ Head(last_call.result) \notin Whitespace
              /\ last_call.result[Len(last_call.result)] \notin Whitespace
      /\ (/\ last_call.query.tp = "str"
          /\ \A i \in 1..Len(last_call.query.s) :
                last_call.query.s[i] \in Disallowed \cup Whitespace)
           => /\ last_call.result = <<>>
              /\ \A run \in RunEffects :
                    perform_search(last_call.query, run, "ok").lookups = 0

====
